---- MODULE Spec2Model ----
(***************************************************************************)
(* Model of app.py: the multi-agent pipeline MultiAgentSystem.run          *)
(* (summary fetch -> description -> offerings -> focus areas -> industry   *)
(* -> use cases) with its fallbacks.  Python str values are TLA+ strings,  *)
(* Python lists are sequences, dicts are functions on their keys.          *)
(***************************************************************************)
EXTENDS Naturals, Sequences, FiniteSets, TLC

(***************************************************************************)
(* Bounds of the model and constants of the program.                       *)
(***************************************************************************)
\* most lines in a language-model list answer
MaxLines == 4
\* most parts composed into a description handed to the offerings heuristic
MaxParts == 3
\* most words composed into a description handed to the classifier
MaxWords == 2

\* len(description.strip()) < 40 rejects the summary extract
MinDescLen == 40
\* len(p) >= 10 keeps a fragment
MinFragmentLen == 10
\* description.strip()[:140]
TruncateLen == 140
\* max_items: int = 3, items[:3]
MaxItems == 3

\* Stand-in for the bullet character U+2022, which is not ASCII.
Bullet == "@"

(***************************************************************************)
(* Python str and re operations, on TLA+ strings.                          *)
(***************************************************************************)
CharAt(s, i) == SubSeq(s, i, i)

\* s[:n]
Take(s, n) == SubSeq(s, 1, IF Len(s) < n THEN Len(s) ELSE n)

\* s[n:] with n counted from 1
Drop(s, n) == SubSeq(s, n, Len(s))

\* the characters str.strip() removes
Whitespace == {" ", "\n", "\t"}

RECURSIVE LStripChars(_, _)
LStripChars(s, chars) ==
    IF Len(s) > 0 /\ CharAt(s, 1) \in chars
    THEN LStripChars(Drop(s, 2), chars)
    ELSE s

RECURSIVE RStripChars(_, _)
RStripChars(s, chars) ==
    IF Len(s) > 0 /\ CharAt(s, Len(s)) \in chars
    THEN RStripChars(Take(s, Len(s) - 1), chars)
    ELSE s

\* s.strip(chars)
StripChars(s, chars) == RStripChars(LStripChars(s, chars), chars)

\* s.strip()
Strip(s) == StripChars(s, Whitespace)

UpperChars == "ABCDEFGHIJKLMNOPQRSTUVWXYZ"
LowerChars == "abcdefghijklmnopqrstuvwxyz"

\* the upper-case letters, and the lower-case letter of each
UpperSet == {CharAt(UpperChars, i) : i \in 1..Len(UpperChars)}
LowerOf ==
    [c \in UpperSet |->
        CharAt(LowerChars, CHOOSE i \in 1..Len(UpperChars) : CharAt(UpperChars, i) = c)]

LowerChar(c) == IF c \in UpperSet THEN LowerOf[c] ELSE c

\* s.lower()
RECURSIVE Lower(_)
Lower(s) ==
    IF s = "" THEN ""
    ELSE IF Len(s) = 1 THEN LowerChar(s)
    ELSE LET h == Len(s) \div 2 IN Lower(Take(s, h)) \o Lower(Drop(s, h + 1))

\* sub in s
Contains(s, sub) ==
    \E i \in 1..(Len(s) + 1) :
        /\ i + Len(sub) - 1 <= Len(s)
        /\ SubSeq(s, i, i + Len(sub) - 1) = sub

\* seq[:n] of a list
TakeItems(seq, n) == SubSeq(seq, 1, IF Len(seq) < n THEN Len(seq) ELSE n)

\* text.splitlines()
RECURSIVE SplitLines(_)
SplitLines(s) ==
    IF s = "" THEN <<>>
    ELSE LET nl == {i \in 1..Len(s) : CharAt(s, i) = "\n"}
         IN  IF nl = {} THEN <<s>>
             ELSE LET i == CHOOSE k \in nl : \A m \in nl : k <= m
                  IN  <<Take(s, i - 1)>> \o SplitLines(Drop(s, i + 1))

\* sep.join(items)
RECURSIVE Join(_, _)
Join(items, sep) ==
    IF items = <<>> THEN ""
    ELSE IF Len(items) = 1 THEN items[1]
    ELSE items[1] \o sep \o Join(Tail(items), sep)

\* The separators of seps (an alternation, tried in order) that match s at i.
SepsAt(s, seps, i) ==
    {k \in 1..Len(seps) :
        /\ i + Len(seps[k]) - 1 <= Len(s)
        /\ SubSeq(s, i, i + Len(seps[k]) - 1) = seps[k]}

\* re.split(alternation of seps, s) from position start on: the leftmost match
\* ends a piece, the first alternative that matches there is the separator
RECURSIVE ReSplitFrom(_, _, _)
ReSplitFrom(s, seps, start) ==
    LET at == {i \in start..Len(s) : SepsAt(s, seps, i) # {}}
    IN  IF at = {} THEN <<SubSeq(s, start, Len(s))>>
        ELSE LET i == CHOOSE a \in at : \A b \in at : a <= b
                 m == SepsAt(s, seps, i)
                 k == CHOOSE a \in m : \A b \in m : a <= b
             IN  <<SubSeq(s, start, i - 1)>> \o ReSplitFrom(s, seps, i + Len(seps[k]))

ReSplit(s, seps) == ReSplitFrom(s, seps, 1)

\* re.split(r'[.\n]', description)
SentenceSeps == <<".", "\n">>
\* re.split(r',| and | & |;|-', fragment)
ListSeps == <<",", " and ", " & ", ";", "-">>

(***************************************************************************)
(* _simple_offerings_from_description                                      *)
(***************************************************************************)
\* Variant of NotInLower: p not in candidates, the case kept.
NotInLower_case_kept(p, candidates) ==
    \A j \in 1..Len(candidates) : candidates[j] # p

\* p.lower() not in (c.lower() for c in candidates)
NotInLower(p, candidates) ==
    \A j \in 1..Len(candidates) : Lower(candidates[j]) # Lower(p)

\* Variant of ScanParts: the part is not trimmed before it is measured and kept.
RECURSIVE ScanParts_untrimmed(_, _, _)
ScanParts_untrimmed(parts, candidates, max_items) ==
    IF parts = <<>> THEN candidates
    ELSE LET p == Head(parts)
             kept == IF Len(p) >= MinFragmentLen /\ NotInLower(p, candidates)
                     THEN Append(candidates, p)
                     ELSE candidates
         IN  IF Len(kept) >= max_items THEN kept
             ELSE ScanParts_untrimmed(Tail(parts), kept, max_items)

\* the inner loop: for p in parts
RECURSIVE ScanParts(_, _, _)
ScanParts(parts, candidates, max_items) ==
    IF parts = <<>> THEN candidates
    ELSE LET p == Strip(Head(parts))
             kept == IF Len(p) >= MinFragmentLen /\ NotInLower(p, candidates)
                     THEN Append(candidates, p)
                     ELSE candidates
         IN  IF Len(kept) >= max_items THEN kept
             ELSE ScanParts(Tail(parts), kept, max_items)

\* the outer loop: for fragment in fragments
RECURSIVE ScanFragments(_, _, _)
ScanFragments(fragments, candidates, max_items) ==
    IF fragments = <<>> THEN candidates
    ELSE LET fragment == Strip(Head(fragments))
         IN  IF fragment = ""
             THEN ScanFragments(Tail(fragments), candidates, max_items)
             ELSE LET kept == ScanParts(ReSplit(fragment, ListSeps), candidates, max_items)
                  IN  IF Len(kept) >= max_items THEN kept
                      ELSE ScanFragments(Tail(fragments), kept, max_items)

simple_offerings_from_description(description) ==
    IF description = "" THEN <<>>
    ELSE LET candidates == ScanFragments(ReSplit(description, SentenceSeps), <<>>, MaxItems)
         IN  IF candidates = <<>>
             THEN <<Take(Strip(description), TruncateLen)>>
             ELSE TakeItems(candidates, MaxItems)

(***************************************************************************)
(* _simple_focus_from_description                                          *)
(***************************************************************************)
FocusKeywords ==
    <<"cloud", "ai", "ml", "mobile", "saas", "hardware", "biotech", "health",
      "finance", "e-commerce", "logistics", "security", "analytics">>

FocusLabel(kw) ==
    CASE kw = "ai" -> "AI / Machine Learning"
      [] kw = "ml" -> "AI / Machine Learning"
      [] kw = "cloud" -> "Cloud Infrastructure"
      [] kw = "saas" -> "SaaS / Platform"
      [] kw = "mobile" -> "Mobile & Apps"
      [] kw = "hardware" -> "Hardware / Devices"
      [] kw = "biotech" -> "Biotech / Life Sciences"
      [] kw = "health" -> "Healthcare Solutions"
      [] kw = "finance" -> "Financial Services"
      [] kw = "e-commerce" -> "E-commerce / Retail"
      [] kw = "logistics" -> "Logistics / Supply Chain"
      [] kw = "security" -> "Security / Privacy"
      [] kw = "analytics" -> "Data Analytics"
      [] OTHER -> kw

GenericFocus == <<"Product/Market Fit", "Customer Experience", "Operational Efficiency">>

\* the loop: for kw in keywords
RECURSIVE ScanKeywords(_, _, _, _)
ScanKeywords(k, lowered, found, max_items) ==
    IF k > Len(FocusKeywords) THEN found
    ELSE LET label == FocusLabel(FocusKeywords[k])
             kept == IF Contains(lowered, FocusKeywords[k])
                        /\ \A j \in 1..Len(found) : found[j] # label
                     THEN Append(found, label)
                     ELSE found
         IN  IF Len(kept) >= max_items THEN kept
             ELSE ScanKeywords(k + 1, lowered, kept, max_items)

simple_focus_from_description(description) ==
    LET found == ScanKeywords(1, Lower(description), <<>>, MaxItems)
    IN  IF found = <<>> THEN TakeItems(GenericFocus, MaxItems)
        ELSE TakeItems(found, MaxItems)

(***************************************************************************)
(* ResearchAgent._classify_industry                                        *)
(***************************************************************************)
\* Variant of classify_industry: the Finance rule is tried before Automotive.
classify_industry_finance_first(description) ==
    IF description = "" THEN "General Industry"
    ELSE LET desc == Lower(description)
         IN  IF Contains(desc, "bank") \/ Contains(desc, "finance")
             THEN "Finance"
             ELSE IF Contains(desc, "automotive") \/ Contains(desc, "vehicle")
             THEN "Automotive"
             ELSE IF Contains(desc, "e-commerce") \/ Contains(desc, "retail")
                     \/ Contains(desc, "shop")
             THEN "E-commerce/Retail"
             ELSE IF Contains(desc, "software") \/ Contains(desc, "technology")
                     \/ Contains(desc, "saas")
             THEN "Technology"
             ELSE IF Contains(desc, "entertainment") \/ Contains(desc, "media")
             THEN "Entertainment/Media"
             ELSE IF Contains(desc, "health") \/ Contains(desc, "medical")
                     \/ Contains(desc, "clinic")
             THEN "Healthcare"
             ELSE "General Industry"

classify_industry(description) ==
    IF description = "" THEN "General Industry"
    ELSE LET desc == Lower(description)
         IN  IF Contains(desc, "automotive") \/ Contains(desc, "vehicle")
             THEN "Automotive"
             ELSE IF Contains(desc, "bank") \/ Contains(desc, "finance")
             THEN "Finance"
             ELSE IF Contains(desc, "e-commerce") \/ Contains(desc, "retail")
                     \/ Contains(desc, "shop")
             THEN "E-commerce/Retail"
             ELSE IF Contains(desc, "software") \/ Contains(desc, "technology")
                     \/ Contains(desc, "saas")
             THEN "Technology"
             ELSE IF Contains(desc, "entertainment") \/ Contains(desc, "media")
             THEN "Entertainment/Media"
             ELSE IF Contains(desc, "health") \/ Contains(desc, "medical")
                     \/ Contains(desc, "clinic")
             THEN "Healthcare"
             ELSE "General Industry"

(***************************************************************************)
(* _simple_use_cases_from_industry                                         *)
(***************************************************************************)
TemplateBullets(industry) ==
    IF Contains(industry, "automotiv") \/ Contains(industry, "vehicle")
    THEN <<"- Predictive maintenance using telemetry + ML to reduce downtime.",
           "- Visual inspection of parts using computer vision.",
           "- Drive-assist personlization (GenAI for driver prompts & UX).">>
    ELSE IF Contains(industry, "finance") \/ Contains(industry, "bank")
    THEN <<"- Fraud detection using anomaly detection models.",
           "- Smart financial summaries & compliance automation with GenAI.",
           "- Customer support & chatbot for common inquiries.">>
    ELSE IF Contains(industry, "e-commerce") \/ Contains(industry, "retail")
    THEN <<"- Personalized product recommendations (recs + ranking).",
           "- Automated product description generation using GenAI.",
           "- Demand forecasting for inventory optimization.">>
    ELSE IF Contains(industry, "health") \/ Contains(industry, "medical")
    THEN <<"- Medical imaging assistance using CV models (triage).",
           "- Clinical note summarization and coding with GenAI.",
           "- Patient triage chatbot and remote-monitoring analytics.">>
    ELSE IF Contains(industry, "technology") \/ Contains(industry, "software")
    THEN <<"- Automated code/documentation generation with GenAI assistants.",
           "- Observability analytics (anomaly detection, root-cause).",
           "- Customer success automation and knowledge-base search.">>
    ELSE <<"- Improve customer experience using personalized GenAI chat assistants.",
           "- Automate reporting and internal knowledge search with semantic search + GenAI.",
           "- Operational efficiency via predictive analytics and automation.">>

\* the bullets list before the join
use_case_bullets(industry_data) ==
    LET industry == Lower(IF industry_data["industry"] = "" THEN "General"
                          ELSE industry_data["industry"])
        offerings == industry_data["offerings"]
        focus == industry_data["strategic_focus"]
        tailored == IF offerings # <<>>
                    THEN <<"- Tailored solution idea: adapt GenAI to " \o offerings[1] \o ".">>
                    ELSE <<>>
        aligned == IF focus # <<>>
                   THEN <<"- Strategic alignment: focus on " \o focus[1] \o " to unlock growth.">>
                   ELSE <<>>
    IN  TemplateBullets(industry) \o tailored \o aligned

simple_use_cases_from_industry(industry_data) ==
    Join(use_case_bullets(industry_data), "\n")

(***************************************************************************)
(* Outcomes of a try body, and the remote services' answers.               *)
(***************************************************************************)
\* a value returned / an exception raised
Ret(v) == [exc |-> FALSE, val |-> v]
Raise == [exc |-> TRUE, val |-> ""]

\* A Python value that is None or a str.
NoneVal == [none |-> TRUE, text |-> ""]
Str(s) == [none |-> FALSE, text |-> s]

\* No answer received yet.
NoResp == [status |-> "none", shape |-> "none", text |-> ""]

\* Company names typed into the text input (the UI refuses an empty name).
CompanyNames == {"Acme", "Axis Bank"}

\* n copies of s
RECURSIVE Rep(_, _)
Rep(s, n) == IF n = 0 THEN "" ELSE s \o Rep(s, n - 1)

\* Extracts the summary endpoint answers with.
WikiExtracts ==
    { "",
      "Acme Corp builds widgets.",
      "Acme may refer to: Acme Corporation, a fictional company; Acme Markets, a grocer",
      "Mercury May Refer To: the planet, the element or the Roman god of commerce",
      "Acme may refer to several unrelated companies and brands.",
      "  " \o Rep("x", MinDescLen - 1) \o "\n",
      " " \o Rep("y", MinDescLen) \o " ",
      "Tesla is an automotive and clean energy company. It designs electric vehicles, battery storage and solar panels.",
      " " \o Rep("ab,", 47) }

\* What the summary endpoint can answer: the request raising, a status other
\* than 200, a body that is no JSON, JSON of another shape, or an extract.
WikiResponses ==
    {[status |-> st, shape |-> "none", text |-> ""] :
        st \in {"timeout", "connection_error", "http_404"}}
    \cup {[status |-> "http_200", shape |-> sh, text |-> ""] :
        sh \in {"not_json", "null", "list", "no_extract", "extract_null",
                "extract_number"}}
    \cup {[status |-> "http_200", shape |-> "extract_str", text |-> e] :
        e \in WikiExtracts}

\* How a language-model call can fail or answer without a usable content.
LlmFailures ==
    {[status |-> st, shape |-> "none", text |-> ""] : st \in {"timeout", "api_error"}}
    \cup {[status |-> "http_200", shape |-> sh, text |-> ""] :
        sh \in {"no_choices", "content_null"}}

LlmAnswers(texts) ==
    {[status |-> "http_200", shape |-> "content_str", text |-> t] : t \in texts}

\* Answers to the description prompt.
DescriptionTexts ==
    { "", " \n ",
      " Acme builds cloud software. ACME BUILDS CLOUD SOFTWARE and mobile apps for retail banks.\n" }

\* Lines of an answer to the offerings and focus-areas prompts.
LineSet == {"  ", "-", "- Cloud"}

ListTexts ==
    {Join(ls, "\n") : ls \in UNION {[1..n -> LineSet] : n \in 0..MaxLines}}

\* Answers to the use-case prompt.
UseCaseTexts == { "", " \n", "- Use a GenAI chatbot for support.\n" }

(***************************************************************************)
(* WebBrowserTools                                                         *)
(***************************************************************************)
\* Variant of summary_try: an extract of exactly 40 characters is rejected.
summary_try_off_by_one(resp) ==
    IF resp.status \in {"timeout", "connection_error"} THEN Raise
    ELSE IF resp.status # "http_200" THEN Ret("")
    ELSE IF resp.shape \in {"not_json", "null", "list", "extract_number"} THEN Raise
    ELSE LET description == IF resp.shape = "extract_str" THEN resp.text ELSE ""
         IN  IF Contains(Lower(description), "may refer to:")
                \/ Len(Strip(description)) <= MinDescLen
             THEN Ret("")
             ELSE Ret(description)

\* scrape_company_info: the try body around the summary request
summary_try(resp) ==
    IF resp.status \in {"timeout", "connection_error"} THEN Raise
    ELSE IF resp.status # "http_200" THEN Ret("")
    ELSE IF resp.shape \in {"not_json", "null", "list", "extract_number"} THEN Raise
    ELSE LET description == IF resp.shape = "extract_str" THEN resp.text ELSE ""
         IN  IF Contains(Lower(description), "may refer to:")
                \/ Len(Strip(description)) < MinDescLen
             THEN Ret("")
             ELSE Ret(description)

\* scrape_company_info: description after the try/except
summary_description(resp) ==
    LET t == summary_try(resp) IN IF t.exc THEN "" ELSE t.val

\* Variant of needs_generated_description: the model is always prompted.
always_generate_description(description) == TRUE

\* if not description: the description prompt is needed
needs_generated_description(description) == description = ""

\* _call_chat_completion: returns the content or raises
call_chat_completion(resp) ==
    IF resp.status # "http_200" THEN Raise
    ELSE IF resp.shape = "no_choices" THEN Raise
    ELSE IF resp.shape = "content_null" THEN Ret(NoneVal)
    ELSE Ret(Str(resp.text))

\* text.strip() on the content: raises on None
strip_content(t) ==
    IF t.exc THEN Raise
    ELSE IF t.val.none THEN Raise
    ELSE Ret(Strip(t.val.text))

Placeholder(company_name) ==
    company_name \o " (description unavailable due to API error)."

\* generate_description_with_groq; logged: the handler appended to last_api_error
generate_description_with_groq(company_name, resp) ==
    LET t == strip_content(call_chat_completion(resp))
    IN  IF t.exc
        THEN [exc |-> FALSE, val |-> Placeholder(company_name), logged |-> TRUE]
        ELSE [exc |-> FALSE, val |-> t.val, logged |-> FALSE]

\* [line.strip(" -•") for line in text.splitlines() if line.strip()]
RECURSIVE StripLines(_)
StripLines(lines) ==
    IF lines = <<>> THEN <<>>
    ELSE IF Strip(Head(lines)) # ""
    THEN <<StripChars(Head(lines), {" ", "-", Bullet})>> \o StripLines(Tail(lines))
    ELSE StripLines(Tail(lines))

\* the try body of generate_offerings and generate_focus_areas
parse_items(t) ==
    IF t.exc THEN Raise
    ELSE IF t.val.none THEN Raise
    ELSE Ret(TakeItems(StripLines(SplitLines(t.val.text)), MaxItems))

generate_offerings(description, resp) ==
    LET t == parse_items(call_chat_completion(resp))
    IN  IF t.exc
        THEN [exc |-> FALSE, val |-> <<>>, logged |-> TRUE]
        ELSE [exc |-> FALSE, val |-> t.val, logged |-> FALSE]

generate_focus_areas(description, resp) ==
    LET t == parse_items(call_chat_completion(resp))
    IN  IF t.exc
        THEN [exc |-> FALSE, val |-> <<>>, logged |-> TRUE]
        ELSE [exc |-> FALSE, val |-> t.val, logged |-> FALSE]

(***************************************************************************)
(* MarketAnalysisAgent                                                     *)
(***************************************************************************)
\* Variant of generate_use_cases: no try/except around the call.
generate_use_cases_unguarded(industry_data, resp) ==
    LET t == strip_content(call_chat_completion(resp))
    IN  [exc |-> t.exc, val |-> t.val, logged |-> FALSE]

generate_use_cases(industry_data, resp) ==
    LET t == strip_content(call_chat_completion(resp))
    IN  IF t.exc
        THEN [exc |-> FALSE, val |-> simple_use_cases_from_industry(industry_data),
              logged |-> TRUE]
        ELSE [exc |-> FALSE, val |-> t.val, logged |-> FALSE]

(***************************************************************************)
(* State of one run of MultiAgentSystem.run                                *)
(***************************************************************************)
VARIABLES
    pc,               \* position of the run
    company_name,     \* the argument of run
    description,      \* scrape_company_info's description
    offerings,        \* scrape_company_info's offerings ("products")
    strategic_focus,  \* scrape_company_info's strategic_focus ("focus_areas")
    industry,         \* research_company's industry
    use_cases,        \* run's use_cases
    result,           \* the dict run returned
    last_api_error,   \* st.session_state["last_api_error"], by step
    calls,            \* the remote calls issued so far, in order
    answer,           \* the answer to the latest summary, description or
                      \* use-case request, held until the next step
    fallback_used     \* the fields the heuristic fallback produced

vars ==
    <<pc, company_name, description, offerings, strategic_focus, industry,
      use_cases, result, last_api_error, calls, answer, fallback_used>>

\* research_company's return value
company_info ==
    [company |-> company_name,
     industry |-> industry,
     offerings |-> offerings,
     strategic_focus |-> strategic_focus,
     description |-> description]

Blank ==
    /\ offerings = <<>>
    /\ strategic_focus = <<>>
    /\ industry = ""
    /\ use_cases = ""
    /\ result = <<>>
    /\ last_api_error = <<>>
    /\ calls = <<>>
    /\ answer = NoResp
    /\ fallback_used = {}

Init ==
    /\ pc = "summary"
    /\ company_name \in CompanyNames
    /\ description = ""
    /\ Blank

\* An exception leaves run: nothing is returned.
Propagate ==
    /\ pc' = "raised"
    /\ UNCHANGED <<description, offerings, strategic_focus, industry, use_cases,
                   result, last_api_error, fallback_used>>

Logged(o, step) ==
    IF o.logged THEN Append(last_api_error, step) ELSE last_api_error

\* scrape_company_info: the summary request and what it leaves in description
FetchSummary ==
    /\ pc = "summary"
    /\ \E resp \in WikiResponses :
        /\ answer' = resp
        /\ description' = summary_description(resp)
    /\ calls' = Append(calls, "summary")
    /\ pc' = IF needs_generated_description(description') THEN "describe" ELSE "offerings"
    /\ UNCHANGED <<company_name, offerings, strategic_focus, industry, use_cases,
                   result, last_api_error, fallback_used>>

\* Variant of Describe: a description call that raised is issued again.
Describe_retry ==
    /\ pc = "describe"
    /\ \E resp \in LlmFailures \cup LlmAnswers(DescriptionTexts) :
        LET o == generate_description_with_groq(company_name, resp)
        IN  /\ answer' = resp
            /\ description' = IF o.logged THEN description ELSE o.val
            /\ last_api_error' = Logged(o, "description")
            /\ pc' = IF o.logged THEN "describe" ELSE "offerings"
    /\ calls' = Append(calls, "description")
    /\ UNCHANGED <<company_name, offerings, strategic_focus, industry, use_cases,
                   result, fallback_used>>

\* scrape_company_info: description = self.generate_description_with_groq(...)
Describe ==
    /\ pc = "describe"
    /\ \E resp \in LlmFailures \cup LlmAnswers(DescriptionTexts) :
        LET o == generate_description_with_groq(company_name, resp)
        IN  /\ answer' = resp
            /\ IF o.exc
               THEN Propagate
               ELSE /\ description' = o.val
                    /\ last_api_error' = Logged(o, "description")
                    /\ pc' = "offerings"
                    /\ UNCHANGED <<offerings, strategic_focus, industry, use_cases,
                                   result, fallback_used>>
    /\ calls' = Append(calls, "description")
    /\ UNCHANGED company_name

\* scrape_company_info: offerings = self.generate_offerings(description), then
\* the heuristic when the list is empty
scrape_offerings(d, resp) ==
    LET o == generate_offerings(d, resp)
    IN  [exc |-> o.exc,
         val |-> IF o.val = <<>> THEN simple_offerings_from_description(d) ELSE o.val,
         fallback |-> o.val = <<>>,
         logged |-> o.logged]

Offerings ==
    /\ pc = "offerings"
    /\ \E resp \in LlmFailures \cup LlmAnswers(ListTexts) :
        LET o == scrape_offerings(description, resp)
        IN  IF o.exc
            THEN Propagate
            ELSE /\ offerings' = o.val
                 /\ fallback_used' = IF o.fallback
                                     THEN fallback_used \cup {"offerings"}
                                     ELSE fallback_used
                 /\ last_api_error' = Logged(o, "offerings")
                 /\ pc' = "focus"
                 /\ UNCHANGED <<description, strategic_focus, industry, use_cases, result>>
    /\ calls' = Append(calls, "offerings")
    /\ answer' = NoResp
    /\ UNCHANGED company_name

\* scrape_company_info: strategic_focus = self.generate_focus_areas(description),
\* then the heuristic when the list is empty
scrape_focus(d, resp) ==
    LET o == generate_focus_areas(d, resp)
    IN  [exc |-> o.exc,
         val |-> IF o.val = <<>> THEN simple_focus_from_description(d) ELSE o.val,
         fallback |-> o.val = <<>>,
         logged |-> o.logged]

Focus ==
    /\ pc = "focus"
    /\ \E resp \in LlmFailures \cup LlmAnswers(ListTexts) :
        LET o == scrape_focus(description, resp)
        IN  IF o.exc
            THEN Propagate
            ELSE /\ strategic_focus' = o.val
                 /\ fallback_used' = IF o.fallback
                                     THEN fallback_used \cup {"strategic_focus"}
                                     ELSE fallback_used
                 /\ last_api_error' = Logged(o, "focus")
                 /\ pc' = "classify"
                 /\ UNCHANGED <<description, offerings, industry, use_cases, result>>
    /\ calls' = Append(calls, "focus")
    /\ UNCHANGED <<company_name, answer>>

\* research_company: the industry of the description
Classify ==
    /\ pc = "classify"
    /\ industry' = classify_industry(description)
    /\ pc' = "use_cases"
    /\ UNCHANGED <<company_name, description, offerings, strategic_focus, use_cases,
                   result, last_api_error, calls, answer, fallback_used>>

\* run: use_cases = self.market_agent.generate_use_cases(company_info)
UseCases ==
    /\ pc = "use_cases"
    /\ \E resp \in LlmFailures \cup LlmAnswers(UseCaseTexts) :
        LET o == generate_use_cases(company_info, resp)
        IN  /\ answer' = resp
            /\ IF o.exc
               THEN Propagate
               ELSE /\ use_cases' = o.val
                    /\ last_api_error' = Logged(o, "use cases")
                    /\ pc' = "return"
                    /\ UNCHANGED <<description, offerings, strategic_focus, industry,
                                   result, fallback_used>>
    /\ calls' = Append(calls, "use cases")
    /\ UNCHANGED company_name

\* run: return {"company_info": ..., "ai_use_cases": ...}
Return ==
    /\ pc = "return"
    /\ result' = [company_info |-> company_info, ai_use_cases |-> use_cases]
    /\ pc' = "done"
    /\ answer' = NoResp
    /\ UNCHANGED <<company_name, description, offerings, strategic_focus, industry,
                   use_cases, last_api_error, calls, fallback_used>>

Next ==
    \/ FetchSummary
    \/ Describe
    \/ Offerings
    \/ Focus
    \/ Classify
    \/ UseCases
    \/ Return

Spec == Init /\ [][Next]_vars

(***************************************************************************)
(* The pure functions on their own: _classify_industry applied to          *)
(* descriptions composed of words, and the offerings step with the model   *)
(* call failing applied to descriptions composed of parts.                 *)
(***************************************************************************)
\* Sequences of 1..n elements of S
SeqsUpTo(S, n) == UNION {[1..k -> S] : k \in 1..n}

Vocabulary ==
    { "automotive", "Vehicle", "bank", "FINANCE", "e-commerce", "retail",
      "Shop", "software", "technology", "SaaS", "entertainment", "Media",
      "health", "medical", "clinic", "widgets", "global" }

ClassifierInputs ==
    {""} \cup {Join(ws, " ") : ws \in SeqsUpTo(Vocabulary, MaxWords)}

Parts ==
    { "apps", "cloud tools",
      "Cloud Tools & data analytics;mobile banking\nonline payments" }

Glue == <<". ", ", ", " and ", "-">>

\* parts[1] g parts[2] g ... for one glue g
HeuristicInputs ==
    { "", " " \o Rep("ab,", 47), Rep("apps, ", 8) }
    \cup {Join(ps, Glue[g]) : ps \in SeqsUpTo(Parts, MaxParts), g \in 1..Len(Glue)}

InitClassify ==
    /\ pc = "classifier"
    /\ company_name = "Acme"
    /\ description \in ClassifierInputs
    /\ Blank

\* _classify_industry(description)
ClassifyOnly ==
    /\ pc = "classifier"
    /\ industry' = classify_industry(description)
    /\ pc' = "classified"
    /\ UNCHANGED <<company_name, description, offerings, strategic_focus, use_cases,
                   result, last_api_error, calls, answer, fallback_used>>

SpecClassify == InitClassify /\ [][ClassifyOnly]_vars

InitHeuristic ==
    /\ pc = "heuristic"
    /\ company_name = "Acme"
    /\ description \in HeuristicInputs
    /\ Blank

\* the offerings step of scrape_company_info with the model call failing
OfferingsModelDown ==
    /\ pc = "heuristic"
    /\ \E resp \in LlmFailures :
        LET o == scrape_offerings(description, resp)
        IN  /\ ~o.exc
            /\ offerings' = o.val
            /\ fallback_used' = IF o.fallback
                                THEN fallback_used \cup {"offerings"}
                                ELSE fallback_used
            /\ last_api_error' = Logged(o, "offerings")
    /\ calls' = Append(calls, "offerings")
    /\ pc' = "heuristic_done"
    /\ UNCHANGED <<company_name, description, strategic_focus, industry, use_cases,
                   result, answer>>

SpecHeuristic == InitHeuristic /\ [][OfferingsModelDown]_vars

(***************************************************************************)
(* Properties                                                              *)
(***************************************************************************)
Returned == pc = "done"

\* The order of the positions of a run.
Rank(p) ==
    CASE p = "summary" -> 0
      [] p = "describe" -> 1
      [] p = "offerings" -> 2
      [] p = "focus" -> 3
      [] p = "classify" -> 4
      [] p = "use_cases" -> 5
      [] p = "return" -> 6
      [] OTHER -> 7

\* The positions an action of Next leaves, on any answer: pc is the only guard
\* of FetchSummary, Describe, Offerings, Focus, Classify, UseCases and Return.
Steppable ==
    {"summary", "describe", "offerings", "focus", "classify", "use_cases", "return"}

\* items has no two entries equal under case-insensitive comparison
NoDuplicatesCI(items) ==
    \A i, j \in 1..Len(items) : i # j => Lower(items[i]) # Lower(items[j])

\* name occurs in the call log
Called(name) == \E i \in 1..Len(calls) : calls[i] = name

\* how often name occurs in the call log
Count(name) == Cardinality({i \in 1..Len(calls) : calls[i] = name})

\* marker occurs in s, whatever the case of s
ContainsCI(s, marker) ==
    \E i \in 1..Len(s) :
        /\ i + Len(marker) - 1 <= Len(s)
        /\ Lower(SubSeq(s, i, i + Len(marker) - 1)) = marker

\* The endpoint answered 200 with a JSON object whose extract is a string.
AnsweredExtract(resp) == resp.status = "http_200" /\ resp.shape = "extract_str"

\* The answer an extract is accepted on, for a given disambiguation marker.
Accepted(resp, marker) ==
    /\ AnsweredExtract(resp)
    /\ resp.text # ""
    /\ ~ContainsCI(resp.text, marker)
    /\ Len(Strip(resp.text)) >= MinDescLen

\* The language model answered with a string content.
AnsweredContent(resp) == resp.status = "http_200" /\ resp.shape = "content_str"

\* The state right after the summary request.
AfterSummary == calls = <<"summary">>

\* The state right after the description prompt.
AfterDescribe == calls = <<"summary", "description">> /\ pc # "raised"

----------------------------------------------------------------------------
\* C1: whatever the remote calls answer, run goes on step by step to its
\* return, no exception leaves it, and the dict it returns holds company_info
\* and ai_use_cases.
C1_State ==
    /\ pc # "raised"
    /\ ~Returned => pc \in Steppable
    /\ Returned =>
        /\ DOMAIN result = {"company_info", "ai_use_cases"}
        /\ result["company_info"] = company_info
        /\ result["ai_use_cases"] = use_cases

\* C1: in every state no exception has left run and the run can go on or has
\* returned the two-key dict, and every step moves the run forward.
C1_RunReturns == [](C1_State) /\ [][Rank(pc') > Rank(pc)]_vars

\* A run returned although the description, offerings, focus and use-case
\* calls all raised.
C1_Witness ==
    /\ Returned
    /\ last_api_error = <<"description", "offerings", "focus", "use cases">>

----------------------------------------------------------------------------
\* C2: the description of the returned profile is a non-empty string.
C2_DescriptionNonEmpty ==
    Returned => result["company_info"]["description"] # ""

----------------------------------------------------------------------------
\* C3: when the use-case call errors or answers an empty or whitespace-only
\* text, generate_use_cases returns the industry template fallback, so the
\* returned ai_use_cases is never empty.
C3_FallbackOnErrorOrEmpty ==
    /\ (pc = "return" /\ (~AnsweredContent(answer) \/ Strip(answer.text) = ""))
        => use_cases = simple_use_cases_from_industry(company_info)
    /\ Returned => result["ai_use_cases"] # ""

----------------------------------------------------------------------------
----------------------------------------------------------------------------
\* C5: every entry of offerings and strategic_focus in the returned profile
\* is non-empty after trimming.
C5_EntriesNonEmpty ==
    Returned =>
        /\ \A i \in 1..Len(offerings) : Strip(offerings[i]) # ""
        /\ \A i \in 1..Len(strategic_focus) : Strip(strategic_focus[i]) # ""

----------------------------------------------------------------------------
----------------------------------------------------------------------------
\* C7 as stated: the extract is accepted exactly when the endpoint answered,
\* the extract is non-empty, does not contain 'may refer to' (with or
\* without a colon) and has at least 40 characters after trimming.
C7_Original ==
    AfterSummary =>
        /\ Accepted(answer, "may refer to") <=> pc = "offerings"
        /\ Accepted(answer, "may refer to") => description = answer.text

\* C7 amended: the marker is 'may refer to:' with its colon: an extract that
\* says 'may refer to' without a colon is accepted.
C7_AcceptedUnlessColonMarkerOrShort ==
    AfterSummary =>
        /\ Accepted(answer, "may refer to:") <=> pc = "offerings"
        /\ Accepted(answer, "may refer to:") => description = answer.text
        /\ ~Accepted(answer, "may refer to:") => description = "" /\ pc = "describe"

\* An extract of exactly 40 characters after trimming was accepted with its
\* surrounding whitespace.
C7_Witness ==
    /\ AfterSummary
    /\ pc = "offerings"
    /\ Len(Strip(description)) = MinDescLen
    /\ Len(description) > MinDescLen

----------------------------------------------------------------------------
\* C8: _classify_industry returns the label of the first rule, in the fixed
\* order, one of whose keywords occurs case-insensitively in the description,
\* 'General Industry' when none does or the description is empty; the label
\* is one of the closed set, and a second application gives the same label.
Rules ==
    << [label |-> "Automotive", keywords |-> {"automotive", "vehicle"}],
       [label |-> "Finance", keywords |-> {"bank", "finance"}],
       [label |-> "E-commerce/Retail", keywords |-> {"e-commerce", "retail", "shop"}],
       [label |-> "Technology", keywords |-> {"software", "technology", "saas"}],
       [label |-> "Entertainment/Media", keywords |-> {"entertainment", "media"}],
       [label |-> "Healthcare", keywords |-> {"health", "medical", "clinic"}] >>

Labels == {Rules[r].label : r \in 1..Len(Rules)} \cup {"General Industry"}

Matching(d) ==
    {r \in 1..Len(Rules) : \E kw \in Rules[r].keywords : ContainsCI(d, kw)}

FirstRuleLabel(d) ==
    LET m == Matching(d)
    IN  IF d = "" \/ m = {} THEN "General Industry"
        ELSE Rules[CHOOSE r \in m : \A q \in m : r <= q].label

\* C8: the industry computed for a description is the label of its first
\* matching rule, a member of the closed set, and stable under re-application.
C8_FirstMatchingRule ==
    pc \in {"classified", "use_cases", "return", "done"} =>
        /\ industry = FirstRuleLabel(description)
        /\ industry \in Labels
        /\ classify_industry(description) = industry

\* A description matching two rules got the label of the earlier one.
C8_Witness ==
    /\ pc = "classified"
    /\ Cardinality(Matching(description)) = 2
    /\ industry = "Finance"
    /\ ContainsCI(description, "media")

----------------------------------------------------------------------------
\* C9: no remote call is issued twice in a run, and the description prompt
\* is issued only when the summary answer was rejected or failed.
C9_State ==
    /\ \A name \in {"summary", "description", "offerings", "focus", "use cases"} :
        Count(name) <= 1
    /\ \A i \in 1..Len(calls) :
        calls[i] \in {"summary", "description", "offerings", "focus", "use cases"}

\* C9: each remote call occurs at most once in the call log, a step issues at
\* most one call, and the description prompt is issued only right after a
\* summary answer that was not accepted.
C9_CallsAtMostOnce ==
    /\ [](C9_State)
    /\ [][(~Called("description") /\ Called("description")')
            => (AfterSummary /\ ~Accepted(answer, "may refer to:"))]_vars
    /\ [][Len(calls') <= Len(calls) + 1]_vars

\* A run returned after five calls of which the description call had failed.
C9_Witness ==
    /\ Returned
    /\ calls = <<"summary", "description", "offerings", "focus", "use cases">>
    /\ Len(last_api_error) >= 1 /\ last_api_error[1] = "description"

----------------------------------------------------------------------------
\* C10: with the offerings model call failing, offerings is the heuristic
\* result: the first up to 3 fragments, in scan order over sentences and then
\* list separators, of at least 10 characters after trimming and pairwise
\* distinct case-insensitively; with no such fragment, the one-item list of
\* the description cut to 140 characters.
RECURSIVE Flatten(_)
Flatten(lists) ==
    IF lists = <<>> THEN <<>> ELSE Head(lists) \o Flatten(Tail(lists))

\* every fragment of d, trimmed, in scan order
Fragments(d) ==
    LET sentences == ReSplit(d, SentenceSeps)
        pieces == [i \in 1..Len(sentences) |-> ReSplit(Strip(sentences[i]), ListSeps)]
        flat == Flatten(pieces)
    IN  [i \in 1..Len(flat) |-> Strip(flat[i])]

\* the fragments long enough that differ, whatever the case, from every
\* earlier fragment long enough
Qualifying(d) ==
    LET f == Fragments(d)
        keep == {i \in 1..Len(f) :
                    /\ Len(f[i]) >= MinFragmentLen
                    /\ \A j \in 1..(i - 1) :
                        Len(f[j]) >= MinFragmentLen => Lower(f[j]) # Lower(f[i])}
        RECURSIVE Pick(_)
        Pick(i) ==
            IF i > Len(f) THEN <<>>
            ELSE (IF i \in keep THEN <<f[i]>> ELSE <<>>) \o Pick(i + 1)
    IN  Pick(1)

\* whole: the text cut to 140 characters when no fragment qualifies
HeuristicResult(d, whole) ==
    IF d = "" THEN <<>>
    ELSE IF Qualifying(d) = <<>> THEN <<Take(whole, TruncateLen)>>
    ELSE TakeItems(Qualifying(d), MaxItems)

OfferingsCallFailed ==
    pc = "heuristic_done" /\ last_api_error = <<"offerings">>

\* C10 as stated: with no qualifying fragment the item is the description
\* itself cut to 140 characters.
C10_Original ==
    OfferingsCallFailed => offerings = HeuristicResult(description, description)

\* C10 amended: with no qualifying fragment the item is the description
\* trimmed of surrounding whitespace and then cut to 140 characters.
C10_HeuristicOfferings ==
    OfferingsCallFailed => offerings = HeuristicResult(description, Strip(description))

\* A description of more than 140 characters with leading whitespace and no
\* fragment of 10 characters gave its trimmed text cut to 140 characters.
C10_Witness ==
    /\ OfferingsCallFailed
    /\ Len(description) > TruncateLen
    /\ Strip(description) # description
    /\ offerings = <<Take(Strip(description), TruncateLen)>>

====
